---- MODULE Spec2Model ----
(***************************************************************************)
(* fltk-theme (src/src/lib.rs): ColorTheme, WidgetTheme and WidgetScheme   *)
(* and their effect on the host toolkit's global styling state.            *)
(*                                                                         *)
(* The host state is the 256-slot colour palette and the table of frame    *)
(* drawing callbacks.  The caller holds one theme object at a time (the    *)
(* objects are immutable values, so "A.apply(); B.apply()" is the run      *)
(* new(A), apply, new(B), apply).                                          *)
(***************************************************************************)
EXTENDS Integers, Sequences, FiniteSets, TLC

\* ---------------------------------------------------------------- bounds
MaxLen == 2          \* longest ColorMap slice a colour-only program passes
MaxLenAll == 1       \* longest ColorMap slice when all three kinds are mixed

\* ------------------------------------------------------- program constants
NumColors == 256     \* ColorMap.index is a u8: palette slots 0..255

\* ------------------------------------------------------------------ state
VARIABLES
    palette,   \* host: palette slot -> <<r, g, b>>
    frames,    \* host: frame/box type -> registered drawing callback
    calls,     \* host primitives called by the last operation, in order
    procs,     \* theme/scheme procedures invoked by the last operation
    slice,     \* the ColorMap slice given to the last constructor (<<>> if it takes none)
    obj,       \* the theme object the caller holds
    op,        \* name of the last operation
    reps,      \* applies of obj since it was constructed (0, 1, 2 = "twice or more")
    pre,       \* history: host state before the last apply
    applied    \* history: the object whose apply ran last

prog == <<palette, frames, calls, procs, slice, obj, op, reps>>
hist == <<pre, applied>>
vars == <<palette, frames, calls, procs, slice, obj, op, reps, pre, applied>>

\* ------------------------------------------------------------------ types
Slots == 0 .. (NumColors - 1)

\* (r, g, b) values the callers' tables use
RGBs == { <<0, 0, 0>>, <<255, 255, 255>> }

\* pub struct ColorMap { index, r, g, b }
ColorMap(i, c) == [index |-> i, r |-> c[1], g |-> c[2], b |-> c[3]]

\* palette indices the callers' tables use: the spec's scenario slot and the
\* last slot a u8 can name
Indices == { 1, NumColors - 1 }

ColorMaps == { ColorMap(i, c) : i \in Indices, c \in RGBs }

SeqsUpTo(S, n) == UNION { [1 .. k -> S] : k \in 0 .. n }

\* the slices a caller may pass
Maps == SeqsUpTo(ColorMaps, MaxLen)

\* the slices passed by a program that also uses widget themes and schemes
MapsAll == SeqsUpTo(ColorMaps, MaxLenAll)

ThemeType == { "Classic", "Aero", "Metro", "AquaClassic",
               "Greybird", "Blue", "Dark", "HighContrast" }

SchemeType == { "Aqua", "Clean", "Crystal", "Fluent", "Gleam", "SvgBased" }

NoObject == [kind |-> "None", vec |-> <<>>, ty |-> "-"]

\* pub struct ColorTheme(pub Vec<ColorMap>)
ColorTheme(v) == [kind |-> "ColorTheme", vec |-> v, ty |-> "-"]

\* pub struct WidgetTheme { theme: ThemeType }
WidgetTheme(t) == [kind |-> "WidgetTheme", vec |-> <<>>, ty |-> t]

\* pub struct WidgetScheme { scheme: SchemeType }
WidgetScheme(s) == [kind |-> "WidgetScheme", vec |-> <<>>, ty |-> s]

\* --------------------------------------------------------- host primitives
\* the host's styling state as a value threaded through a call
Host == [palette |-> palette, frames |-> frames, calls |-> <<>>]

\* app::set_color(Color::by_index(i), r, g, b)
set_color(h, i, r, g, b) ==
    [h EXCEPT !.palette = [@ EXCEPT ![i] = <<r, g, b>>],
              !.calls = Append(@, [fn |-> "set_color", args |-> <<i, r, g, b>>])]

\* app::redraw()
redraw(h) ==
    [h EXCEPT !.calls = Append(@, [fn |-> "redraw", args |-> <<>>])]

\* ------------------------------------------------------------- ColorTheme
\* derive(Clone) on ColorMap: field by field
clone(e) == [index |-> e.index, r |-> e.r, g |-> e.g, b |-> e.b]

RECURSIVE to_vec_rev(_)
to_vec_rev(s) ==
    IF s = <<>> THEN <<>> ELSE Append(to_vec_rev(Tail(s)), clone(Head(s)))

\* <[ColorMap]>::to_vec: a new vector, element k cloned from element k
RECURSIVE to_vec(_)
to_vec(s) ==
    IF s = <<>> THEN <<>> ELSE <<clone(Head(s))>> \o to_vec(Tail(s))

\* for elem in &self.0 { app::set_color(...) }, entries k..n
RECURSIVE for_elem(_, _, _)
for_elem(v, k, h) ==
    IF k > Len(v) THEN h
    ELSE for_elem(v, k + 1, set_color(h, v[k].index, v[k].r, v[k].g, v[k].b))

\* the loop stops one entry short
apply_skip_last(v, h) ==
    redraw(for_elem(SubSeq(v, 1, Len(v) - 1), 1, h))

RECURSIVE blend_elem(_, _, _)
blend_elem(v, k, h) ==
    IF k > Len(v) THEN h
    ELSE LET old == h.palette[v[k].index]
         IN  blend_elem(v, k + 1,
                 set_color(h, v[k].index, (old[1] + v[k].r) \div 2,
                           (old[2] + v[k].g) \div 2, (old[3] + v[k].b) \div 2))

\* each entry is mixed into the slot's current colour instead of replacing it
apply_blend(v, h) == redraw(blend_elem(v, 1, h))

\* every entry lands one slot too high
apply_next_slot(v, h) ==
    redraw(for_elem([k \in 1 .. Len(v) |->
                        [v[k] EXCEPT !.index = (@ + 1) % NumColors]], 1, h))

\* the redraw request is issued before the loop
apply_redraw_first(v, h) == for_elem(v, 1, redraw(h))

\* ColorTheme::apply, as a function of the vector and the host state
apply_fn(v, h) == redraw(for_elem(v, 1, h))

\* ---------------------------------------------------------------- actions
\* pub fn from_colormap(map: &[ColorMap]) -> ColorTheme
ColorTheme_from_colormap(map) ==
    /\ slice' = map
    /\ obj' = ColorTheme(to_vec(map))
    /\ op' = "ColorTheme::from_colormap"
    /\ reps' = 0
    /\ calls' = <<>>
    /\ procs' = <<>>
    /\ UNCHANGED <<palette, frames>>

\* pub fn new(map: &[ColorMap]) -> ColorTheme
ColorTheme_new(map) ==
    /\ slice' = map
    /\ obj' = ColorTheme(to_vec(map))
    /\ op' = "ColorTheme::new"
    /\ reps' = 0
    /\ calls' = <<>>
    /\ procs' = <<>>
    /\ UNCHANGED <<palette, frames>>

\* pub fn apply(&self), impl ColorTheme
ColorTheme_apply ==
    /\ obj.kind = "ColorTheme"
    /\ LET h == apply_fn(obj.vec, Host)
       IN  /\ palette' = h.palette
           /\ frames' = h.frames
           /\ calls' = h.calls
    /\ procs' = <<>>
    /\ op' = "ColorTheme::apply"
    /\ reps' = IF reps = 0 THEN 1 ELSE 2
    /\ UNCHANGED <<slice, obj>>

\* ------------------------------------------------- frame-drawing registry
\* the stock frame/box identifiers every theme and scheme procedure covers
FrameTypes == <<"UpBox", "DownBox", "UpFrame", "RoundedBox">>

\* host primitive "register custom draw callback for frame/box type ft"
set_frame_type_cb(h, ft, cb) ==
    [h EXCEPT !.frames = [@ EXCEPT ![ft] = cb],
              !.calls = Append(@, [fn |-> "set_frame_type_cb", args |-> <<ft, cb>>])]

\* the drawing routine procedure p supplies for frame type ft
Callback(p, ft) == <<p, ft>>

RECURSIVE register_frames(_, _, _)
register_frames(p, k, h) ==
    IF k > Len(FrameTypes) THEN h
    ELSE register_frames(p, k + 1,
             set_frame_type_cb(h, FrameTypes[k], Callback(p, FrameTypes[k])))

\* palette slots a theme procedure assigns:
\* foreground, background2, inactive, selection, background
ThemeSlots == <<0, 7, 8, 15, 49>>

ThemeProcs == <<"use_classic_theme", "use_aero_theme", "use_metro_theme",
                "use_aqua_classic_theme", "use_greybird_theme", "use_blue_theme",
                "use_dark_theme", "use_high_contrast_theme">>

SchemeProcs == <<"use_aqua_scheme", "use_clean_scheme", "use_crystal_scheme",
                 "use_fluent_scheme", "use_gleam_scheme", "use_svg_based_scheme">>

IsThemeProc(p) == \E k \in 1 .. Len(ThemeProcs) : ThemeProcs[k] = p

\* the fixed colour theme procedure p gives to palette slot s
ThemeColor(p, s) ==
    LET n == CHOOSE k \in 1 .. Len(ThemeProcs) : ThemeProcs[k] = p
    IN  <<(25 * n + s) % 256, 20 * n, 255 - 25 * n>>

RECURSIVE set_theme_colors(_, _, _)
set_theme_colors(p, k, h) ==
    IF k > Len(ThemeSlots) THEN h
    ELSE LET c == ThemeColor(p, ThemeSlots[k])
         IN  set_theme_colors(p, k + 1, set_color(h, ThemeSlots[k], c[1], c[2], c[3]))

\* widget_themes::*::use_*_theme(): frame callbacks, then the theme's colours
use_theme(p, h) == set_theme_colors(p, 1, register_frames(p, 1, h))

\* widget_schemes::*::use_*_scheme(): frame callbacks only
use_scheme(p, h) == register_frames(p, 1, h)

\* the body of the procedure named p
call(p, h) == IF IsThemeProc(p) THEN use_theme(p, h) ELSE use_scheme(p, h)

\* ------------------------------------------------------------ WidgetTheme
\* Metro shares Aero's arm
theme_match_copy_paste(t) ==
    CASE t = "Classic" -> "use_classic_theme"
      [] t = "Aero" -> "use_aero_theme"
      [] t = "AquaClassic" -> "use_aqua_classic_theme"
      [] t = "Dark" -> "use_dark_theme"
      [] t = "HighContrast" -> "use_high_contrast_theme"
      [] t = "Blue" -> "use_blue_theme"
      [] t = "Metro" -> "use_aero_theme"
      [] t = "Greybird" -> "use_greybird_theme"

\* Dark and HighContrast arms exchanged
theme_match_swapped(t) ==
    CASE t = "Classic" -> "use_classic_theme"
      [] t = "Aero" -> "use_aero_theme"
      [] t = "AquaClassic" -> "use_aqua_classic_theme"
      [] t = "Dark" -> "use_high_contrast_theme"
      [] t = "HighContrast" -> "use_dark_theme"
      [] t = "Blue" -> "use_blue_theme"
      [] t = "Metro" -> "use_metro_theme"
      [] t = "Greybird" -> "use_greybird_theme"

\* match self.theme { ... } in WidgetTheme::apply: the procedure each arm calls
theme_match(t) ==
    CASE t = "Classic" -> "use_classic_theme"
      [] t = "Aero" -> "use_aero_theme"
      [] t = "AquaClassic" -> "use_aqua_classic_theme"
      [] t = "Dark" -> "use_dark_theme"
      [] t = "HighContrast" -> "use_high_contrast_theme"
      [] t = "Blue" -> "use_blue_theme"
      [] t = "Metro" -> "use_metro_theme"
      [] t = "Greybird" -> "use_greybird_theme"

\* pub fn new(theme: ThemeType) -> Self
WidgetTheme_new(t) ==
    /\ slice' = <<>>
    /\ obj' = WidgetTheme(t)
    /\ op' = "WidgetTheme::new"
    /\ reps' = 0
    /\ calls' = <<>>
    /\ procs' = <<>>
    /\ UNCHANGED <<palette, frames>>

\* pub fn apply(&self), impl WidgetTheme
WidgetTheme_apply ==
    /\ obj.kind = "WidgetTheme"
    /\ LET p == theme_match(obj.ty)
           h == call(p, Host)
       IN  /\ procs' = <<p>>
           /\ palette' = h.palette
           /\ frames' = h.frames
           /\ calls' = h.calls
    /\ op' = "WidgetTheme::apply"
    /\ reps' = IF reps = 0 THEN 1 ELSE 2
    /\ UNCHANGED <<slice, obj>>

\* ----------------------------------------------------------- WidgetScheme
\* the Clean arm calls a theme procedure
scheme_match_theme_proc(s) ==
    CASE s = "Aqua" -> "use_aqua_scheme"
      [] s = "Clean" -> "use_classic_theme"
      [] s = "Crystal" -> "use_crystal_scheme"
      [] s = "Fluent" -> "use_fluent_scheme"
      [] s = "Gleam" -> "use_gleam_scheme"
      [] s = "SvgBased" -> "use_svg_based_scheme"

\* match self.scheme { ... } in WidgetScheme::apply: the procedure each arm calls
scheme_match(s) ==
    CASE s = "Aqua" -> "use_aqua_scheme"
      [] s = "Clean" -> "use_clean_scheme"
      [] s = "Crystal" -> "use_crystal_scheme"
      [] s = "Fluent" -> "use_fluent_scheme"
      [] s = "Gleam" -> "use_gleam_scheme"
      [] s = "SvgBased" -> "use_svg_based_scheme"

\* pub fn new(scheme: SchemeType) -> Self
WidgetScheme_new(s) ==
    /\ slice' = <<>>
    /\ obj' = WidgetScheme(s)
    /\ op' = "WidgetScheme::new"
    /\ reps' = 0
    /\ calls' = <<>>
    /\ procs' = <<>>
    /\ UNCHANGED <<palette, frames>>

\* pub fn apply(&self), impl WidgetScheme
WidgetScheme_apply ==
    /\ obj.kind = "WidgetScheme"
    /\ LET p == scheme_match(obj.ty)
           h == call(p, Host)
       IN  /\ procs' = <<p>>
           /\ palette' = h.palette
           /\ frames' = h.frames
           /\ calls' = h.calls
    /\ op' = "WidgetScheme::apply"
    /\ reps' = IF reps = 0 THEN 1 ELSE 2
    /\ UNCHANGED <<slice, obj>>

\* --------------------------------------------------------- specifications
\* the host's palette and frame table before any theme is applied
StartPalette == [i \in Slots |-> <<i, (3 * i) % 256, 255 - i>>]

\* nothing applied yet
NoHistory == [palette |-> <<>>, frames |-> <<>>, calls |-> <<>>]

Init ==
    /\ palette = StartPalette
    /\ frames = [ft \in { FrameTypes[k] : k \in 1 .. Len(FrameTypes) } |-> <<"builtin", ft>>]
    /\ calls = <<>>
    /\ procs = <<>>
    /\ slice = <<>>
    /\ obj = NoObject
    /\ op = "start"
    /\ reps = 0
    /\ pre = NoHistory
    /\ applied = NoObject

\* history kept when the last two applies are compared
Record ==
    /\ pre' = Host
    /\ applied' = obj

\* every operation of the crate
Next ==
    \/ \E m \in MapsAll : ColorTheme_from_colormap(m) /\ UNCHANGED hist
    \/ \E m \in MapsAll : ColorTheme_new(m) /\ UNCHANGED hist
    \/ ColorTheme_apply /\ UNCHANGED hist
    \/ \E t \in ThemeType : WidgetTheme_new(t) /\ UNCHANGED hist
    \/ WidgetTheme_apply /\ UNCHANGED hist
    \/ \E s \in SchemeType : WidgetScheme_new(s) /\ UNCHANGED hist
    \/ WidgetScheme_apply /\ UNCHANGED hist

Spec == Init /\ [][Next]_vars

\* a program that uses colour themes only
NextColor ==
    \/ \E m \in Maps : ColorTheme_from_colormap(m) /\ UNCHANGED hist
    \/ \E m \in Maps : ColorTheme_new(m) /\ UNCHANGED hist
    \/ ColorTheme_apply /\ UNCHANGED hist

SpecColor == Init /\ [][NextColor]_vars

\* a program that uses widget themes and schemes only, with the history
NextWidget ==
    \/ \E t \in ThemeType : WidgetTheme_new(t) /\ UNCHANGED hist
    \/ WidgetTheme_apply /\ Record
    \/ \E s \in SchemeType : WidgetScheme_new(s) /\ UNCHANGED hist
    \/ WidgetScheme_apply /\ Record

SpecWidget == Init /\ [][NextWidget]_vars

\* ------------------------------------------------------------ properties
rgb(e) == <<e.r, e.g, e.b>>

IndicesOf(v) == { v[k].index : k \in 1 .. Len(v) }

\* entry k is the last one of v for its index
IsLast(v, k) == \A j \in (k + 1) .. Len(v) : v[j].index # v[k].index

\* the colour of the last entry of v for each index v names
LastColour(v) ==
    [i \in IndicesOf(v) |->
        rgb(v[CHOOSE k \in 1 .. Len(v) : v[k].index = i /\ IsLast(v, k)])]

\* the reorderings of v
Perms(v) ==
    { [k \in 1 .. Len(v) |-> v[f[k]]] :
        f \in { g \in [1 .. Len(v) -> 1 .. Len(v)] :
                  \A i, j \in 1 .. Len(v) : g[i] = g[j] => i = j } }

Black == <<0, 0, 0>>
White == <<255, 255, 255>>

\* the procedure the crate provides for each variant
ProcFor ==
    [Classic |-> "use_classic_theme", Aero |-> "use_aero_theme",
     Metro |-> "use_metro_theme", AquaClassic |-> "use_aqua_classic_theme",
     Greybird |-> "use_greybird_theme", Blue |-> "use_blue_theme",
     Dark |-> "use_dark_theme", HighContrast |-> "use_high_contrast_theme",
     Aqua |-> "use_aqua_scheme", Clean |-> "use_clean_scheme",
     Crystal |-> "use_crystal_scheme", Fluent |-> "use_fluent_scheme",
     Gleam |-> "use_gleam_scheme", SvgBased |-> "use_svg_based_scheme"]

\* C1 as stated: after ColorTheme::apply the palette slot of EVERY entry of the
\* map holds that entry's (r, g, b), repeated indices included.
C1_EveryEntryReadsBack ==
    op = "ColorTheme::apply" =>
        \A k \in 1 .. Len(obj.vec) : palette[obj.vec[k].index] = rgb(obj.vec[k])

\* C1 amended: after ColorTheme::apply the palette slot of every index of the
\* map holds the (r, g, b) of the LAST entry for that index.
C1_LastEntryReadsBack ==
    op = "ColorTheme::apply" =>
        \A k \in 1 .. Len(obj.vec) :
            IsLast(obj.vec, k) => palette[obj.vec[k].index] = rgb(obj.vec[k])

\* a map naming slot 1 twice, black then white, was applied: slot 1 reads white
C1_Witness ==
    /\ op = "ColorTheme::apply"
    /\ obj.vec = <<ColorMap(1, Black), ColorMap(1, White)>>
    /\ palette[1] = White

\* C2: ColorTheme::apply leaves every palette slot whose index is not in the
\* map as it was (so an empty map changes no slot).
C2_UnmappedSlotsKept ==
    [][ColorTheme_apply =>
        \A i \in Slots : i \notin IndicesOf(obj.vec) => palette'[i] = palette[i]]_vars

\* a map naming only slot 1 was applied over a palette whose slot 255 an
\* earlier theme had set to white: slot 255 is still white
C2_Witness ==
    /\ op = "ColorTheme::apply"
    /\ IndicesOf(obj.vec) = {1}
    /\ palette[1] = Black
    /\ palette[NumColors - 1] = White

\* C3: new(M) and from_colormap(M) yield a theme whose vector equals M, same
\* length, same order, and change neither the palette nor the frame table nor
\* call any host primitive.
C3_ConstructorsCopy ==
    [][op' \in {"ColorTheme::new", "ColorTheme::from_colormap"} =>
        /\ obj'.kind = "ColorTheme"
        /\ Len(obj'.vec) = Len(slice')
        /\ \A k \in 1 .. Len(slice') : obj'.vec[k] = slice'[k]
        /\ palette' = palette
        /\ frames' = frames
        /\ calls' = <<>>]_vars

\* a theme was constructed from a two-entry slice that repeats an index, after
\* an earlier theme had changed the palette
C3_Witness ==
    /\ op = "ColorTheme::new"
    /\ slice = <<ColorMap(1, White), ColorMap(1, Black)>>
    /\ obj.vec = slice
    /\ palette[1] = White
    /\ calls = <<>>

\* C4: applying the same object a second time in succession changes neither
\* the palette nor the frame table, for all three kinds of object.
C4_ApplyIdempotent ==
    [][(reps >= 1 /\ (ColorTheme_apply \/ WidgetTheme_apply \/ WidgetScheme_apply)) =>
        (palette' = palette /\ frames' = frames)]_vars

\* a widget theme was applied twice in succession over a palette a colour
\* theme had changed
C4_Witness ==
    /\ op = "WidgetTheme::apply"
    /\ reps = 2
    /\ palette[1] = Black
    /\ frames["UpBox"] = Callback(ProcFor[obj.ty], "UpBox")

C6_OrderIrrelevant ==
    [][ColorTheme_apply =>
        \A q \in Perms(obj.vec) : apply_fn(q, Host).palette = palette']_vars

\* C6 amended: a reordering of the map yields the same palette whenever, for
\* every index, the last entry for that index has the same colour in both
\* orders (always so when no index occurs with two different colours).
C6_OrderIrrelevantUpToLast ==
    [][ColorTheme_apply =>
        \A q \in Perms(obj.vec) :
            LastColour(q) = LastColour(obj.vec) =>
                apply_fn(q, Host).palette = palette']_vars

\* a two-entry map over two different slots was applied; its reversal is a
\* different map
C6_Witness ==
    /\ op = "ColorTheme::apply"
    /\ obj.vec = <<ColorMap(1, Black), ColorMap(NumColors - 1, White)>>
    /\ \E q \in Perms(obj.vec) : q # obj.vec /\ LastColour(q) = LastColour(obj.vec)
    /\ palette[1] = Black
    /\ palette[NumColors - 1] = White

\* C7: ColorTheme::apply on n entries makes exactly n set_color calls, the k-th
\* for entry k, and then exactly one redraw call, also when n = 0.
C7_CallsInSliceOrderThenRedraw ==
    op = "ColorTheme::apply" =>
        /\ Len(calls) = Len(obj.vec) + 1
        /\ \A k \in 1 .. Len(obj.vec) :
               calls[k] = [fn |-> "set_color",
                           args |-> <<obj.vec[k].index, obj.vec[k].r,
                                      obj.vec[k].g, obj.vec[k].b>>]
        /\ calls[Len(obj.vec) + 1] = [fn |-> "redraw", args |-> <<>>]

\* a map of two different entries was applied
C7_Witness ==
    /\ op = "ColorTheme::apply"
    /\ obj.vec = <<ColorMap(NumColors - 1, White), ColorMap(1, Black)>>
    /\ Len(calls) = 3

\* C8: WidgetTheme::apply invokes exactly the one procedure of its variant and
\* WidgetScheme::apply exactly the one of its variant; every one of the 8 and
\* of the 6 variants has an arm and no two variants share a procedure.
C8_DispatchTotal ==
    /\ op = "WidgetTheme::apply" => procs = <<ProcFor[obj.ty]>>
    /\ op = "WidgetScheme::apply" => procs = <<ProcFor[obj.ty]>>
    /\ Cardinality(ThemeType) = Len(ThemeProcs)
    /\ Cardinality(SchemeType) = Len(SchemeProcs)
    /\ \A t \in ThemeType : IsThemeProc(theme_match(t))
    /\ \A s \in SchemeType : \E k \in 1 .. Len(SchemeProcs) : SchemeProcs[k] = scheme_match(s)
    /\ \A t, u \in ThemeType : theme_match(t) = theme_match(u) => t = u
    /\ \A s, u \in SchemeType : scheme_match(s) = scheme_match(u) => s = u

\* the Metro theme was applied
C8_Witness ==
    /\ op = "WidgetTheme::apply"
    /\ obj = WidgetTheme("Metro")
    /\ procs = <<"use_metro_theme">>

\* C9: WidgetScheme::apply leaves every palette slot as it was.
C9_SchemeKeepsPalette ==
    op = "WidgetScheme::apply" => palette = pre.palette

\* a scheme was applied over the colours of a theme applied before it
C9_Witness ==
    /\ op = "WidgetScheme::apply"
    /\ obj = WidgetScheme("Fluent")
    /\ palette # StartPalette
    /\ frames["UpBox"] = Callback("use_fluent_scheme", "UpBox")

\* C10: a widget theme applied after a widget scheme leaves the host as the
\* theme alone would from the state before the scheme: every frame type has
\* the theme's callback, none the scheme's, and the colours are the theme's.
C10_ThemeOverridesScheme ==
    [][(WidgetTheme_apply /\ applied.kind = "WidgetScheme") =>
        LET h == call(ProcFor[obj.ty], [pre EXCEPT !.calls = <<>>])
        IN  /\ palette' = h.palette
            /\ frames' = h.frames
            /\ \A ft \in DOMAIN frames' :
                   /\ frames'[ft] = Callback(ProcFor[obj.ty], ft)
                   /\ frames'[ft] # Callback(ProcFor[applied.ty], ft)
            /\ \A k \in 1 .. Len(ThemeSlots) :
                   palette'[ThemeSlots[k]] = ThemeColor(ProcFor[obj.ty], ThemeSlots[k])]_vars

\* Dark was applied right after Clean
C10_Witness ==
    /\ op = "WidgetTheme::apply"
    /\ obj = WidgetTheme("Dark")
    /\ \A ft \in DOMAIN frames :
           /\ pre.frames[ft] = Callback("use_clean_scheme", ft)
           /\ frames[ft] = Callback("use_dark_theme", ft)
    /\ palette[49] = ThemeColor("use_dark_theme", 49)

====
